---------------------------- MODULE Spec2Model ----------------------------
(***************************************************************************)
(* Model of the content-curator session coordinator: the CopilotService    *)
(* (topic, platform, model, per-content-type cache, AI session) together   *)
(* with the ExaService search collaborator it drives, the command parser   *)
(* (parseCommand) and the app's command loop (run).                        *)
(*                                                                         *)
(* Three specifications share the variables: Spec (a caller drives the     *)
(* service directly), SpecParse (parseCommand on one line) and SpecApp     *)
(* (run and its command loop).                                             *)
(*                                                                         *)
(* Strings that the code inspects (AI response text) are sequences of      *)
(* one-character strings; strings the code only passes around (topics,     *)
(* error messages, urls) are TLA+ strings.  A thrown exception is a value  *)
(* of an operator's result ([kind |-> "throw", ...]).                      *)
(***************************************************************************)
EXTENDS Integers, Sequences, FiniteSets, TLC

VARIABLES
    exaConfigured,  \* ExaService.client !== null (EXA_API_KEY was set)
    client,         \* CopilotService.client
    session,        \* CopilotService.session
    currentModel,   \* CopilotService.currentModel
    context,        \* CopilotService.context (SessionContext)
    producedFor,    \* history: the topic each cache entry was stored under
    last,           \* history: the last service call, its calls and outcome
    ops,            \* number of steps so far: service calls, or commands read
    inputText,      \* the line given to parseCommand
    command,        \* the Command parseCommand returned for it
    pc,             \* where the program is (run's position, or the caller's)
    state,          \* the app's AppState (all fields but service)
    pending,        \* the commands whose handler awaits a service call
    process,        \* the process: running or exited, and how
    stateBefore     \* history: AppState when the last command was read

vars == <<exaConfigured, client, session, currentModel, context,
          producedFor, last, ops, inputText, command, pc, state, pending,
          process, stateBefore>>

\* the variables of the service object and of its search collaborator
svcVars == <<exaConfigured, client, session, currentModel, context, producedFor>>

\* the variables of the command parser's caller
parseVars == <<inputText, command>>

\* the variables of the app around the service
appVars == <<pc, state, pending, process, stateBefore>>

---------------------------------------------------------------------------
(* Bounds of the model *)

\* service calls explored per behaviour
MaxOps == 3

---------------------------------------------------------------------------
(* Closed enums and the values inputs are drawn from *)

Platform == {"instagram", "youtube", "tiktok", "all"}

ContentType == {"search", "ideas", "script", "trending", "hooks", "full"}

AVAILABLE_MODELS == {"gpt-4o", "gpt-4.1", "gpt-5", "claude-sonnet-4", "o3", "o4-mini"}

\* topics a caller passes to the constructor or to setTopic
Topics == {"cats", "dogs"}

\* platforms and models a caller passes to setPlatform / switchModel
PlatformInputs == {"all", "tiktok"}

ModelInputs == {"gpt-4o", "o3"}

\* feedback text passed to refine
Feedback == {"shorter"}

\* absent value of an optional string field (undefined)
Undefined == "<undefined>"

\* this.session === null / this.client === null
\* (late: the session still owes deltas of a request whose send failed)
NoSession ==
    [exists |-> FALSE, destroyed |-> FALSE, model |-> Undefined, listeners |-> 0,
     late |-> FALSE]

NoClient == "null"

---------------------------------------------------------------------------
(* Text: sequences of characters *)

Whitespace == {" ", "\n"}

RECURSIVE Concat(_)
\* s1 + s2 + ... for a sequence of texts
Concat(ss) == IF ss = <<>> THEN <<>> ELSE Head(ss) \o Concat(Tail(ss))

\* t is at a markdown heading marker at position i: the lookahead (?=##|#\s)
MarkerAt(t, i) ==
    /\ i + 1 <= Len(t)
    /\ t[i] = "#"
    /\ t[i + 1] \in {"#"} \cup Whitespace

\* .replace(/^[\s\S]*?(?=##|#\s)/m, ""): drop what precedes the first marker
RemovePreamble(t) ==
    LET ms == {i \in 1..Len(t) : MarkerAt(t, i)}
    IN  IF ms = {} THEN t
        ELSE LET p == CHOOSE i \in ms : \A j \in ms : i <= j
             IN  SubSeq(t, p, Len(t))

RECURSIVE RunLen(_, _)
\* length of the run of newlines of t that starts at position i
RunLen(t, i) == IF i <= Len(t) /\ t[i] = "\n" THEN 1 + RunLen(t, i + 1) ELSE 0

RECURSIVE CollapseNewlines(_)
\* runs of three or more newlines become two; shorter runs are kept
CollapseNewlines(t) ==
    IF t = <<>> THEN <<>>
    ELSE IF Head(t) = "\n"
         THEN LET n == RunLen(t, 1)
                  kept == IF n >= 3 THEN 2 ELSE n
              IN  [k \in 1..kept |-> "\n"] \o CollapseNewlines(SubSeq(t, n + 1, Len(t)))
         ELSE <<Head(t)>> \o CollapseNewlines(Tail(t))

RECURSIVE TrimStart(_)
TrimStart(t) == IF t # <<>> /\ Head(t) \in Whitespace THEN TrimStart(Tail(t)) ELSE t

RECURSIVE TrimEnd(_)
TrimEnd(t) ==
    IF t # <<>> /\ t[Len(t)] \in Whitespace THEN TrimEnd(SubSeq(t, 1, Len(t) - 1)) ELSE t

\* String.prototype.trim
Trim(t) == TrimEnd(TrimStart(t))

\* cleanContent as it would be without the final trim()
cleanContentUntrimmed(content) == CollapseNewlines(RemovePreamble(content))

\* CopilotService.cleanContent
cleanContent(content) == Trim(CollapseNewlines(RemovePreamble(content)))

---------------------------------------------------------------------------
(* Command parsing (ui/prompts) *)

\* the letters, in both cases, in alphabet order
UpperCase ==
    << "A", "B", "C", "D", "E", "F", "G", "H", "I", "J", "K", "L", "M",
       "N", "O", "P", "Q", "R", "S", "T", "U", "V", "W", "X", "Y", "Z" >>

LowerCase ==
    << "a", "b", "c", "d", "e", "f", "g", "h", "i", "j", "k", "l", "m",
       "n", "o", "p", "q", "r", "s", "t", "u", "v", "w", "x", "y", "z" >>

\* String.prototype.toLowerCase as it would be if it changed nothing
toLowerCaseKeeping(t) == t

\* String.prototype.toLowerCase
toLowerCase(t) ==
    [i \in 1..Len(t) |->
        IF \E n \in 1..26 : UpperCase[n] = t[i]
        THEN LowerCase[CHOOSE n \in 1..26 : UpperCase[n] = t[i]]
        ELSE t[i]]

\* String.prototype.toUpperCase
toUpperCase(t) ==
    [i \in 1..Len(t) |->
        IF \E n \in 1..26 : LowerCase[n] = t[i]
        THEN UpperCase[CHOOSE n \in 1..26 : LowerCase[n] = t[i]]
        ELSE t[i]]

\* the Command variants: every record has the three fields, the ones a
\* variant does not have are Undefined / empty
Content(contentType) == [type |-> "content", contentType |-> contentType, message |-> <<>>]

Simple(type) == [type |-> type, contentType |-> Undefined, message |-> <<>>]

Chat(message) == [type |-> "chat", contentType |-> Undefined, message |-> message]

\* the closed set of command types
CommandTypes ==
    {"content", "platform", "topic", "model", "copy", "last", "clear", "help",
     "quit", "chat"}

COMMAND_MAP ==
    (<<"/", "s", "e", "a", "r", "c", "h">> :> Content("search")) @@
    (<<"/", "r", "e", "s", "e", "a", "r", "c", "h">> :> Content("search")) @@
    (<<"/", "i", "d", "e", "a", "s">> :> Content("ideas")) @@
    (<<"/", "i", "d", "e", "a">> :> Content("ideas")) @@
    (<<"/", "s", "c", "r", "i", "p", "t">> :> Content("script")) @@
    (<<"/", "s", "c", "r", "i", "p", "t", "s">> :> Content("script")) @@
    (<<"/", "t", "r", "e", "n", "d", "i", "n", "g">> :> Content("trending")) @@
    (<<"/", "t", "r", "e", "n", "d", "s">> :> Content("trending")) @@
    (<<"/", "h", "o", "o", "k", "s">> :> Content("hooks")) @@
    (<<"/", "h", "o", "o", "k">> :> Content("hooks")) @@
    (<<"/", "f", "u", "l", "l">> :> Content("full")) @@
    (<<"/", "a", "l", "l">> :> Content("full")) @@
    (<<"/", "p", "a", "c", "k", "a", "g", "e">> :> Content("full")) @@
    (<<"/", "p", "l", "a", "t", "f", "o", "r", "m">> :> Simple("platform")) @@
    (<<"/", "p">> :> Simple("platform")) @@
    (<<"/", "t", "o", "p", "i", "c">> :> Simple("topic")) @@
    (<<"/", "t">> :> Simple("topic")) @@
    (<<"/", "m", "o", "d", "e", "l">> :> Simple("model")) @@
    (<<"/", "m">> :> Simple("model")) @@
    (<<"/", "c", "o", "p", "y">> :> Simple("copy")) @@
    (<<"/", "c">> :> Simple("copy")) @@
    (<<"/", "l", "a", "s", "t">> :> Simple("last")) @@
    (<<"/", "b", "a", "c", "k">> :> Simple("last")) @@
    (<<"/", "c", "l", "e", "a", "r">> :> Simple("clear")) @@
    (<<"/", "c", "l", "s">> :> Simple("clear")) @@
    (<<"/", "h", "e", "l", "p">> :> Simple("help")) @@
    (<<"/", "h">> :> Simple("help")) @@
    (<<"/", "?">> :> Simple("help")) @@
    (<<"/", "q", "u", "i", "t">> :> Simple("quit")) @@
    (<<"/", "e", "x", "i", "t">> :> Simple("quit")) @@
    (<<"/", "q">> :> Simple("quit"))

\* the all-lowercase property names an object literal inherits from
\* Object.prototype: COMMAND_MAP[name] is then a function or an object
InheritedKeys ==
    { <<"c", "o", "n", "s", "t", "r", "u", "c", "t", "o", "r">>,
      <<"_", "_", "p", "r", "o", "t", "o", "_", "_">> }

\* what COMMAND_MAP[name] is for an inherited name: truthy, and no Command
\* (its .type is undefined)
Inherited == [type |-> Undefined, contentType |-> Undefined, message |-> <<>>]

\* COMMAND_MAP[key] is truthy
Truthy(key) == key \in DOMAIN COMMAND_MAP \/ key \in InheritedKeys

\* COMMAND_MAP[key], when truthy
Lookup(key) == IF key \in DOMAIN COMMAND_MAP THEN COMMAND_MAP[key] ELSE Inherited

\* parseCommand as it would be if the fallback carried the lower-cased text
parseCommandLowering(text) ==
    LET trimmed == Trim(text)
        lowered == toLowerCase(trimmed)
    IN  IF Truthy(lowered) THEN Lookup(lowered)
        ELSE IF trimmed = <<>> THEN Chat(<<>>)
        ELSE IF Head(trimmed) = "/" THEN Chat(lowered)
        ELSE Chat(trimmed)

\* parseCommand(inputText)
parseCommand(text) ==
    LET trimmed == Trim(text)
        lowered == toLowerCase(trimmed)
    IN  IF Truthy(lowered) THEN Lookup(lowered)
        ELSE IF trimmed = <<>> THEN Chat(<<>>)
        ELSE IF Head(trimmed) = "/" THEN Chat(trimmed)
        ELSE Chat(trimmed)

---------------------------------------------------------------------------
(* Thrown values and results *)

\* new Error(message)
Err(message) == [isError |-> TRUE, message |-> message]

\* a thrown value that is not an Error instance
NonError == [isError |-> FALSE, message |-> Undefined]

NoThrow == [isError |-> FALSE, message |-> "<none>"]

\* GenerationResult { content, success, error? }
GenerationResult(content, success, error) ==
    [content |-> content, success |-> success, error |-> error]

\* value of an outcome that carries no GenerationResult (void, or a throw)
NoResult == [content |-> <<>>, success |-> FALSE, error |-> "<void>"]

Return(result) == [kind |-> "return", result |-> result, error |-> NoThrow]

Throw(error) == [kind |-> "throw", result |-> NoResult, error |-> error]

---------------------------------------------------------------------------
(* ExaService *)

\* what one request to the Exa API does: it throws, or answers these urls
SearchOutcomes ==
    { [threw |-> TRUE,  urls |-> <<>>],
      [threw |-> FALSE, urls |-> <<>>],
      [threw |-> FALSE, urls |-> <<"u1", "u2">>] }

Query(text, topic, numResults, recent) ==
    [text |-> text, topic |-> topic, numResults |-> numResults, recent |-> recent]

\* ExaService.searchAndContents: resp is what the API request does.
\* requests: the requests that reached the API; failed: how many of them threw
searchAndContents(query, resp) ==
    IF ~exaConfigured
    THEN [threw |-> TRUE, error |-> Err("Exa API key not configured"),
          results |-> <<>>, requests |-> <<>>, failed |-> 0]
    ELSE IF resp.threw
    THEN [threw |-> TRUE, error |-> Err("Exa search failed"),
          results |-> <<>>, requests |-> <<query>>, failed |-> 1]
    ELSE [threw |-> FALSE, error |-> NoThrow,
          results |-> [i \in 1..Len(resp.urls) |->
                          [url |-> resp.urls[i], topic |-> query.topic]],
          requests |-> <<query>>, failed |-> 0]

\* ExaService.searchTrending: last 7 days, 15 results
searchTrending(topic, resp) ==
    searchAndContents(Query("topic", topic, 15, TRUE), resp)

\* the three queries of searchContentIdeas
IdeaQueries(topic) ==
    << Query("viral", topic, 5, FALSE),
       Query("tips", topic, 5, FALSE),
       Query("best", topic, 5, FALSE) >>

\* filter((result, index, self) => index === self.findIndex(r => r.url === result.url))
DedupByUrl(rs) ==
    LET keep == {i \in 1..Len(rs) : \A j \in 1..(i - 1) : rs[j].url # rs[i].url}
        RECURSIVE Pick(_)
        Pick(i) == IF i > Len(rs) THEN <<>>
                   ELSE (IF i \in keep THEN <<rs[i]>> ELSE <<>>) \o Pick(i + 1)
    IN  Pick(1)

\* ExaService.searchContentIdeas: a failing query is skipped, never thrown
searchContentIdeas(topic, resps) ==
    LET qs == IdeaQueries(topic)
        rs == [i \in 1..3 |-> searchAndContents(qs[i], resps[i])]
        all == Concat([i \in 1..3 |-> IF rs[i].threw THEN <<>> ELSE rs[i].results])
    IN  [threw |-> FALSE, error |-> NoThrow,
         results |-> DedupByUrl(all),
         requests |-> Concat([i \in 1..3 |-> rs[i].requests]),
         failed |-> rs[1].failed + rs[2].failed + rs[3].failed]

\* ExaService.formatResultsForLLM
formatResultsForLLM(results) ==
    IF Len(results) = 0
    THEN [kind |-> "noResults", topic |-> Undefined, items |-> <<>>]
    ELSE [kind |-> "formatted", topic |-> Undefined, items |-> results]

---------------------------------------------------------------------------
(* Prompt templates *)

NoText == [kind |-> "none", topic |-> Undefined, items |-> <<>>]

\* a prompt: its template and the values embedded in it
Prompt(kind, contentType, topic, platform, search, prior, request) ==
    [kind |-> kind, contentType |-> contentType, topic |-> topic,
     platform |-> platform, search |-> search, prior |-> prior, request |-> request]

NoPrompt == Prompt("none", Undefined, Undefined, Undefined, NoText, <<>>, Undefined)

\* `${searchResults}\n\n---\n\n${getContentPrompt(contentType, {topic, platform})}`
getContentPrompt(contentType, topic, platform, search) ==
    Prompt("content", contentType, topic, platform, search, <<>>, Undefined)

getRefinementPrompt(originalContent, refinementRequest) ==
    Prompt("refine", Undefined, Undefined, Undefined, NoText, originalContent,
           refinementRequest)

getMoreVariationsPrompt(contentType, existingContent, topic) ==
    Prompt("variations", contentType, topic, Undefined, NoText, existingContent,
           Undefined)

---------------------------------------------------------------------------
(* Map<ContentType, string>: a function whose domain is the keys present *)

EmptyMap == [k \in {} |-> <<>>]

MapHas(m, k) == k \in DOMAIN m

MapSet(m, k, v) == [x \in (DOMAIN m) \cup {k} |-> IF x = k THEN v ELSE m[x]]

MapDelete(m, k) == [x \in (DOMAIN m) \ {k} |-> m[x]]

\* Map.get: the text, or <<>> standing for undefined (both are falsy)
MapGet(m, k) == IF MapHas(m, k) THEN m[k] ELSE <<>>

---------------------------------------------------------------------------
(* The AI session collaborator *)

\* what createSession / client.start / session.destroy do
Ok == [threw |-> FALSE, error |-> NoThrow]

CallOutcomes == {Ok, [threw |-> TRUE, error |-> Err("Connection failed")]}

\* what client.stop() does
StopOutcomes == {Ok, [threw |-> TRUE, error |-> Err("Failed to stop client")]}

MessageDelta(text) == [type |-> "assistant.message_delta", deltaContent |-> text]

Usage == [type |-> "assistant.usage", deltaContent |-> <<>>]

\* event streams of one request
EvPreamble ==
    << MessageDelta(<<"o", "k", "\n">>), Usage, MessageDelta(<<"#", "#", " ", "T">>) >>

EvBlank == << MessageDelta(<<" ", "\n">>), Usage >>

EvHeading == << MessageDelta(<<"#", " ", "A", "\n", "\n", "\n">>), MessageDelta(<<"b">>) >>

AiEventSeqs == {EvPreamble, EvBlank, EvHeading}

\* the delta a session emits late, for a request whose sendAndWait timed out
LateEvent == MessageDelta(<<"z">>)

\* what the session does with one request: session.on may throw; the events
\* it emits while sendAndWait is pending, after the late events of an earlier
\* request when late; sendAndWait resolves or throws, and when it timed out
\* the session has not finished emitting (unfinished)
AiOutcomes ==
    [subscribe : {Ok}, late : BOOLEAN, events : AiEventSeqs, send : {Ok},
     unfinished : {FALSE}]
    \cup { [subscribe |-> Ok, late |-> FALSE,
            events |-> << MessageDelta(<<"#", "#", " ", "T">>) >>,
            send |-> [threw |-> TRUE, error |-> Err("Timeout waiting for response")],
            unfinished |-> TRUE],
           [subscribe |-> Ok, late |-> FALSE, events |-> <<>>,
            send |-> [threw |-> TRUE, error |-> NonError], unfinished |-> FALSE],
           [subscribe |-> [threw |-> TRUE, error |-> Err("Session closed")],
            late |-> FALSE, events |-> <<>>, send |-> Ok, unfinished |-> FALSE] }

\* what a request on session sess can do: a destroyed session completes no
\* request; late events come only from a session that owes some; without a
\* session no request is made, so one value stands for all
AiOutcomesOf(sess) ==
    IF ~sess.exists
    THEN {[subscribe |-> Ok, late |-> FALSE, events |-> <<>>, send |-> Ok,
           unfinished |-> FALSE]}
    ELSE IF sess.destroyed
    THEN {ai \in AiOutcomes : ~ai.late /\ (ai.subscribe.threw \/ ai.send.threw)}
    ELSE {ai \in AiOutcomes : ai.late => sess.late}

---------------------------------------------------------------------------
(* CopilotService *)

\* what a service method did besides changing the service: the search
\* requests that reached the API (searches) and how many of them threw
\* (failed), the prompt given to sendAndWait, the calls of session.on (on) and
\* session.sendAndWait (sent), the events the session emitted for the request
\* (events), whether late events of an earlier request reached the listener
\* (late), and the error sendPrompt caught
NoEffects ==
    [searches |-> <<>>, failed |-> 0, prompt |-> NoPrompt, on |-> 0, sent |-> 0,
     events |-> <<>>, late |-> FALSE, caught |-> NoThrow]

\* the result of a service method: the service afterwards, what the method
\* returned or threw, and what it did
Done(s, outcome, effects) == [s |-> s, outcome |-> outcome, effects |-> effects]

\* constructor(topic, platform, model)
NewService(topic, platform, model) ==
    [client |-> NoClient, session |-> NoSession, currentModel |-> model,
     context |-> [topic |-> topic, platform |-> platform,
                  searchResults |-> [defined |-> FALSE, results |-> <<>>],
                  generatedContent |-> EmptyMap],
     producedFor |-> EmptyMap]

\* setPlatform as it would be if it invalidated the cache like setTopic
setPlatformClearing(s, platform) ==
    [s EXCEPT !.context.platform = platform,
              !.context.generatedContent = EmptyMap,
              !.producedFor = EmptyMap]

setPlatform(s, platform) ==
    [s EXCEPT !.context.platform = platform]

\* setTopic as it would be without the clear() of the cache and the results
setTopicKeeping(s, topic) ==
    [s EXCEPT !.context.topic = topic]

setTopic(s, topic) ==
    [s EXCEPT !.context.topic = topic,
              !.context.generatedContent = EmptyMap,
              !.context.searchResults = [defined |-> FALSE, results |-> <<>>],
              !.producedFor = EmptyMap]

\* createSession: this.client!.createSession({model: this.currentModel, ...})
createSession(s, create) ==
    IF s.client = NoClient
    THEN Done(s, Throw(Err("Cannot read properties of null")), NoEffects)
    ELSE IF create.threw
    THEN Done(s, Throw(create.error), NoEffects)
    ELSE Done([s EXCEPT !.session = [exists |-> TRUE, destroyed |-> FALSE,
                                     model |-> s.currentModel, listeners |-> 0,
                                     late |-> FALSE]],
              Return(NoResult), NoEffects)

\* initialize: new CopilotClient, client.start(), createSession(); rethrows
initialize(s, start, create) ==
    IF start.threw
    THEN Done([s EXCEPT !.client = "created"], Throw(start.error), NoEffects)
    ELSE createSession([s EXCEPT !.client = "started"], create)

\* switchModel: destroy the session (errors ignored), set the model, create
\* a session; a createSession failure is rethrown
\* (destroyed: whether session.destroy() took effect)
switchModel(s, newModel, destroyed, create) ==
    IF newModel = s.currentModel
    THEN Done(s, Return(NoResult), NoEffects)
    ELSE LET s1 == IF s.session.exists
                   THEN [s EXCEPT !.session.destroyed = @ \/ destroyed]
                   ELSE s
             s2 == [s1 EXCEPT !.currentModel = newModel]
         IN  createSession(s2, create)

\* handleEvent: the text an event contributes through onText
handleEvent(event) ==
    IF event.type = "assistant.message_delta" /\ event.deltaContent # <<>>
    THEN event.deltaContent
    ELSE <<>>

\* error instanceof Error ? error.message : "Generation failed"
ErrorMessage(error) == IF error.isError THEN error.message ELSE "Generation failed"

\* the catch block as it would be if it rethrew the error
CaughtRethrown(s, error, effects) ==
    Done(s, Throw(error), [effects EXCEPT !.caught = error])

\* the catch block of sendPrompt
Caught(s, error, effects) ==
    Done(s, Return(GenerationResult(<<>>, FALSE, ErrorMessage(error))),
         [effects EXCEPT !.caught = error])

\* sendPrompt as it would be if it cached the cleaned text even when empty
sendPromptCachingEmpty(s, prompt, contentType, fx, ai) ==
    IF ~s.session.exists
    THEN Done(s, Return(GenerationResult(<<>>, FALSE, "Session not initialized")), fx)
    ELSE IF ai.subscribe.threw
    THEN Caught(s, ai.subscribe.error, [fx EXCEPT !.on = 1])
    ELSE LET subscribed == [s EXCEPT !.session.listeners = @ + 1,
                                     !.session.late = (@ /\ ~ai.late) \/ ai.unfinished]
             arrived == (IF ai.late THEN <<LateEvent>> ELSE <<>>) \o ai.events
             raw == Concat([i \in 1..Len(arrived) |-> handleEvent(arrived[i])])
             sentFx == [fx EXCEPT !.on = 1, !.sent = 1, !.prompt = prompt,
                                  !.events = ai.events, !.late = ai.late]
         IN  IF ai.send.threw
             THEN Caught(subscribed, ai.send.error, sentFx)
             ELSE LET unsubscribed == [subscribed EXCEPT !.session.listeners = @ - 1]
                      content == cleanContent(raw)
                  IN  Done([unsubscribed EXCEPT
                              !.context.generatedContent = MapSet(@, contentType, content),
                              !.producedFor = MapSet(@, contentType, s.context.topic)],
                           Return(GenerationResult(content, TRUE, Undefined)), sentFx)

\* sendPrompt(prompt, contentType); fx: what the caller did before
sendPrompt(s, prompt, contentType, fx, ai) ==
    IF ~s.session.exists
    THEN Done(s, Return(GenerationResult(<<>>, FALSE, "Session not initialized")), fx)
    ELSE IF ai.subscribe.threw
    THEN Caught(s, ai.subscribe.error, [fx EXCEPT !.on = 1])
    ELSE LET subscribed == [s EXCEPT !.session.listeners = @ + 1,
                                     !.session.late = (@ /\ ~ai.late) \/ ai.unfinished]
             arrived == (IF ai.late THEN <<LateEvent>> ELSE <<>>) \o ai.events
             raw == Concat([i \in 1..Len(arrived) |-> handleEvent(arrived[i])])
             sentFx == [fx EXCEPT !.on = 1, !.sent = 1, !.prompt = prompt,
                                  !.events = ai.events, !.late = ai.late]
         IN  IF ai.send.threw
             THEN Caught(subscribed, ai.send.error, sentFx)
             ELSE LET unsubscribed == [subscribed EXCEPT !.session.listeners = @ - 1]
                      content == cleanContent(raw)
                      cached ==
                          IF content # <<>>
                          THEN [unsubscribed EXCEPT
                                  !.context.generatedContent = MapSet(@, contentType, content),
                                  !.producedFor = MapSet(@, contentType, s.context.topic)]
                          ELSE unsubscribed
                  IN  Done(cached, Return(GenerationResult(content, TRUE, Undefined)),
                           sentFx)

\* performSearch as it would be without its try/catch
performSearchRethrowing(s, type, resps) ==
    LET r == CASE type = "trending" -> searchTrending(s.context.topic, resps[1])
               [] type = "ideas" -> searchContentIdeas(s.context.topic, resps)
               [] OTHER -> searchAndContents(Query("topic", s.context.topic, 5, FALSE),
                                             resps[1])
    IN  IF r.threw
        THEN [threw |-> TRUE, error |-> r.error, s |-> s,
              requests |-> r.requests, failed |-> r.failed, text |-> NoText]
        ELSE [threw |-> FALSE, error |-> NoThrow,
              s |-> [s EXCEPT !.context.searchResults =
                                 [defined |-> TRUE, results |-> r.results]],
              requests |-> r.requests, failed |-> r.failed,
              text |-> formatResultsForLLM(r.results)]

\* performSearch as it would be without the isConfigured() check
performSearchUnguarded(s, type, resps) ==
    LET r == CASE type = "trending" -> searchTrending(s.context.topic, resps[1])
               [] type = "ideas" -> searchContentIdeas(s.context.topic, resps)
               [] OTHER -> searchAndContents(Query("topic", s.context.topic, 5, FALSE),
                                             resps[1])
    IN  IF r.threw
        THEN [threw |-> FALSE, error |-> NoThrow, s |-> s,
              requests |-> r.requests, failed |-> r.failed,
              text |-> [kind |-> "degraded", topic |-> s.context.topic, items |-> <<>>]]
        ELSE [threw |-> FALSE, error |-> NoThrow,
              s |-> [s EXCEPT !.context.searchResults =
                                 [defined |-> TRUE, results |-> r.results]],
              requests |-> r.requests, failed |-> r.failed,
              text |-> formatResultsForLLM(r.results)]

\* performSearch(type): resps is what the API requests do
performSearch(s, type, resps) ==
    IF ~exaConfigured
    THEN [threw |-> FALSE, error |-> NoThrow, s |-> s, requests |-> <<>>, failed |-> 0,
          text |-> [kind |-> "noKey", topic |-> Undefined, items |-> <<>>]]
    ELSE LET r == CASE type = "trending" -> searchTrending(s.context.topic, resps[1])
                    [] type = "ideas" -> searchContentIdeas(s.context.topic, resps)
                    [] OTHER -> searchAndContents(Query("topic", s.context.topic, 5, FALSE),
                                                  resps[1])
         IN  IF r.threw
             THEN [threw |-> FALSE, error |-> NoThrow, s |-> s,
                   requests |-> r.requests, failed |-> r.failed,
                   text |-> [kind |-> "degraded", topic |-> s.context.topic, items |-> <<>>]]
             ELSE [threw |-> FALSE, error |-> NoThrow,
                   s |-> [s EXCEPT !.context.searchResults =
                                      [defined |-> TRUE, results |-> r.results]],
                   requests |-> r.requests, failed |-> r.failed,
                   text |-> formatResultsForLLM(r.results)]

\* the search mode as it would be if every content type used the general search
SearchTypeGeneral(contentType) == "general"

\* the search mode of a content type
SearchType(contentType) ==
    IF contentType = "trending" THEN "trending"
    ELSE IF contentType = "ideas" THEN "ideas"
    ELSE "general"

\* generate as it would be if it never answered from the cache
generateIgnoringCache(s, contentType, regenerate, resps, ai) ==
    LET found == performSearch(s, SearchType(contentType), resps)
        fx == [NoEffects EXCEPT !.searches = found.requests, !.failed = found.failed]
    IN  sendPrompt(found.s,
                   getContentPrompt(contentType, found.s.context.topic,
                                    found.s.context.platform, found.text),
                   contentType, fx, ai)

\* generate(contentType, {regenerate})
generate(s, contentType, regenerate, resps, ai) ==
    LET s1 == IF regenerate
              THEN [s EXCEPT !.context.generatedContent = MapDelete(@, contentType),
                             !.producedFor = MapDelete(@, contentType)]
              ELSE s
        cached == MapGet(s1.context.generatedContent, contentType)
    IN  IF cached # <<>> /\ ~regenerate
        THEN Done(s1, Return(GenerationResult(cached, TRUE, Undefined)), NoEffects)
        ELSE LET found == performSearch(s1, SearchType(contentType), resps)
                 fx == [NoEffects EXCEPT !.searches = found.requests,
                                         !.failed = found.failed]
             IN  IF found.threw
                 THEN Done(found.s, Throw(found.error), fx)
                 ELSE sendPrompt(found.s,
                                 getContentPrompt(contentType, found.s.context.topic,
                                                  found.s.context.platform, found.text),
                                 contentType, fx, ai)

\* refine as it would be without the check for an existing entry
refineUnchecked(s, contentType, refinementRequest, ai) ==
    sendPrompt(s, getRefinementPrompt(MapGet(s.context.generatedContent, contentType),
                                      refinementRequest),
               contentType, NoEffects, ai)

\* refine(contentType, refinementRequest)
refine(s, contentType, refinementRequest, ai) ==
    LET lastContent == MapGet(s.context.generatedContent, contentType)
    IN  IF lastContent = <<>>
        THEN Done(s, Return(GenerationResult(<<>>, FALSE,
                                             "No content to refine. Generate content first.")),
                  NoEffects)
        ELSE sendPrompt(s, getRefinementPrompt(lastContent, refinementRequest),
                        contentType, NoEffects, ai)

\* getMoreVariations(contentType)
getMoreVariations(s, contentType, ai) ==
    LET existingContent == MapGet(s.context.generatedContent, contentType)
    IN  IF existingContent = <<>>
        THEN Done(s, Return(GenerationResult(<<>>, FALSE,
                                             "No existing content. Generate content first.")),
                  NoEffects)
        ELSE sendPrompt(s, getMoreVariationsPrompt(contentType, existingContent,
                                                   s.context.topic),
                        contentType, NoEffects, ai)

\* cleanup(): destroy the session, then stop the client; an error of either
\* ends the try block and is ignored
cleanup(s, destroy, stop) ==
    IF s.session.exists /\ destroy.threw
    THEN Done(s, Return(NoResult), [NoEffects EXCEPT !.caught = destroy.error])
    ELSE LET s1 == IF s.session.exists
                   THEN [s EXCEPT !.session.destroyed = TRUE]
                   ELSE s
         IN  IF s1.client = NoClient
             THEN Done(s1, Return(NoResult), NoEffects)
             ELSE IF stop.threw
             THEN Done(s1, Return(NoResult), [NoEffects EXCEPT !.caught = stop.error])
             ELSE Done([s1 EXCEPT !.client = "stopped"], Return(NoResult), NoEffects)

---------------------------------------------------------------------------
(* State, and the calls a caller makes on the service, one at a time *)

\* the service object as one value
Svc ==
    [client |-> client, session |-> session, currentModel |-> currentModel,
     context |-> context, producedFor |-> producedFor]

\* the service object after a call
Becomes(s) ==
    /\ client' = s.client
    /\ session' = s.session
    /\ currentModel' = s.currentModel
    /\ context' = s.context
    /\ producedFor' = s.producedFor
    /\ UNCHANGED exaConfigured

\* the record of a call: the method and its arguments, whether the call
\* before it was the same method with the same arguments (repeat), the
\* service before the call, what the call returned or threw, and what it did
Call(op, contentType, regenerate, repeat, before, d) ==
    [op |-> op, contentType |-> contentType, regenerate |-> regenerate,
     repeat |-> repeat, before |-> before, outcome |-> d.outcome,
     effects |-> d.effects]

\* the call ends with result d: the service and the record of the call change
Finish(op, contentType, regenerate, result) ==
    \E d \in {result} :
       /\ Becomes(d.s)
       /\ last' = Call(op, contentType, regenerate,
                        last.op = op /\ last.contentType = contentType
                           /\ last.regenerate = regenerate,
                        Svc, d)
       /\ ops' = ops + 1
       /\ UNCHANGED <<parseVars, appVars>>

\* no line has been parsed
NoCommand == [type |-> "<none>", contentType |-> Undefined, message |-> <<>>]

\* state.lastContentType === null
NoContentType == "null"

\* const state: AppState = {...}, with the topic the user gave
AppState(topic, platform) ==
    [topic |-> topic, platform |-> platform, model |-> "gpt-4o",
     lastContent |-> <<>>, lastContentType |-> NoContentType]

\* the process has not exited
Running == [exited |-> FALSE, code |-> 0, cause |-> "none"]

\* the process has exited with this code, by this path of the program
Exited(code, cause) == [exited |-> TRUE, code |-> code, cause |-> cause]

\* the service object s has just been constructed
Constructed(s) ==
    /\ client = s.client
    /\ session = s.session
    /\ currentModel = s.currentModel
    /\ context = s.context
    /\ producedFor = s.producedFor
    /\ last = Call("new", Undefined, FALSE, FALSE, s,
                   Done(s, Return(NoResult), NoEffects))
    /\ ops = 0

\* a caller that drives the service directly: no app, no command line
Init ==
    /\ exaConfigured \in BOOLEAN
    /\ Constructed(NewService("cats", "all", "gpt-4o"))
    /\ inputText = <<>>
    /\ command = NoCommand
    /\ pc = "service"
    /\ state = AppState(<<>>, "all")
    /\ pending = <<>>
    /\ process = Running
    /\ stateBefore = AppState(<<>>, "all")

\* Inputs that a call never reads are not enumerated: one value stands for all.
One(S) == {CHOOSE x \in S : TRUE}

Initialize ==
    /\ ops < MaxOps
    /\ \E start \in CallOutcomes :
          \E create \in IF start.threw THEN One(CallOutcomes) ELSE CallOutcomes :
             Finish("initialize", Undefined, FALSE, initialize(Svc, start, create))

SetPlatform ==
    /\ ops < MaxOps
    /\ \E platform \in PlatformInputs :
          Finish("setPlatform", Undefined, FALSE,
                 Done(setPlatform(Svc, platform), Return(NoResult), NoEffects))

SetTopic ==
    /\ ops < MaxOps
    /\ \E topic \in Topics :
          Finish("setTopic", Undefined, FALSE,
                 Done(setTopic(Svc, topic), Return(NoResult), NoEffects))

SwitchModel ==
    /\ ops < MaxOps
    /\ \E newModel \in ModelInputs :
          \E destroyed \in IF newModel # currentModel /\ session.exists
                           THEN BOOLEAN ELSE One(BOOLEAN),
             create \in IF newModel # currentModel /\ client # NoClient
                        THEN CallOutcomes ELSE One(CallOutcomes) :
             Finish("switchModel", Undefined, FALSE,
                    switchModel(Svc, newModel, destroyed, create))

\* the outcomes of the API requests of one search: three requests for ideas,
\* one otherwise
SearchResponses(contentType) ==
    IF contentType = "ideas"
    THEN [1..3 -> {o \in SearchOutcomes : o.threw \/ o.urls # <<>>}]
    ELSE {<<o, o, o>> : o \in SearchOutcomes}

\* contentType has a cache entry
Cached(contentType) == MapHas(context.generatedContent, contentType)

Generate ==
    /\ ops < MaxOps
    /\ \E contentType \in ContentType, regenerate \in BOOLEAN :
          \E ai \in IF Cached(contentType) /\ ~regenerate
                    THEN One(AiOutcomesOf(session)) ELSE AiOutcomesOf(session),
             resps \in IF (Cached(contentType) /\ ~regenerate) \/ ~exaConfigured
                       THEN One(SearchResponses(contentType))
                       ELSE SearchResponses(contentType) :
             Finish("generate", contentType, regenerate,
                    generate(Svc, contentType, regenerate, resps, ai))

Refine ==
    /\ ops < MaxOps
    /\ \E contentType \in ContentType, feedback \in Feedback :
          \E ai \in IF Cached(contentType)
                    THEN AiOutcomesOf(session) ELSE One(AiOutcomesOf(session)) :
             Finish("refine", contentType, FALSE, refine(Svc, contentType, feedback, ai))

GetMoreVariations ==
    /\ ops < MaxOps
    /\ \E contentType \in ContentType :
          \E ai \in IF Cached(contentType)
                    THEN AiOutcomesOf(session) ELSE One(AiOutcomesOf(session)) :
             Finish("getMoreVariations", contentType, FALSE,
                    getMoreVariations(Svc, contentType, ai))

Next ==
    \/ Initialize
    \/ SetPlatform
    \/ SetTopic
    \/ SwitchModel
    \/ Generate
    \/ Refine
    \/ GetMoreVariations

Spec == Init /\ [][Next]_vars

---------------------------------------------------------------------------
(* parseCommand applied to one input line *)

\* longest run of whitespace put around an input
MaxPad == 1

\* the whitespace runs around an input
Paddings == UNION {[1..n -> Whitespace] : n \in 0..MaxPad}

\* every upper/lower-case spelling of text
CaseSpellings(text) ==
    { [i \in 1..Len(text) |-> IF i \in U THEN toUpperCase(<<text[i]>>)[1] ELSE text[i]] :
         U \in SUBSET (1..Len(text)) }

\* lines that are no spelling of a table command
OtherTexts ==
    { <<>>,
      <<"h", "e", "l", "l", "o", " ", "t", "h", "e", "r", "e">>,
      <<"H", "i">>,
      <<"q">>,
      <<"i", "d", "e", "a", "s">>,
      <<"/">>,
      <<"/", "x">>,
      <<"/", "F", "o", "o">>,
      <<"/", "i", "d", "e", "a", "s", "x">>,
      <<"/", " ", "i", "d", "e", "a", "s">>,
      <<"/", "I", "d", "e", "a", "s", " ", "n", "o", "w">>,
      <<"/", "/", "q">>,
      <<"c", "o", "n", "s", "t", "r", "u", "c", "t", "o", "r">>,
      <<"C", "o", "n", "s", "t", "r", "u", "c", "t", "o", "r">>,
      <<"_", "_", "p", "r", "o", "t", "o", "_", "_">>,
      <<"/", "c", "o", "n", "s", "t", "r", "u", "c", "t", "o", "r">>,
      <<"t", "o", "S", "t", "r", "i", "n", "g">> }

\* the input lines: every spelling of every table command and the other
\* texts, with whitespace around them
ParseInputs ==
    LET words == OtherTexts \cup UNION {CaseSpellings(k) : k \in DOMAIN COMMAND_MAP}
    IN  {a \o w \o b : a \in Paddings, b \in Paddings, w \in words}

ParseInit ==
    /\ exaConfigured = FALSE
    /\ Constructed(NewService("cats", "all", "gpt-4o"))
    /\ inputText \in ParseInputs
    /\ command = NoCommand
    /\ pc = "parse"
    /\ state = AppState(<<>>, "all")
    /\ pending = <<>>
    /\ process = Running
    /\ stateBefore = AppState(<<>>, "all")

\* const command = parseCommand(input)
ParseLine ==
    /\ pc = "parse"
    /\ command' = parseCommand(inputText)
    /\ pc' = "parsed"
    /\ UNCHANGED <<svcVars, last, ops, inputText, state, pending, process, stateBefore>>

ParseNext == ParseLine

SpecParse == ParseInit /\ [][ParseNext]_vars

---------------------------------------------------------------------------
(* cleanContent applied to one AI response *)

\* longest response text
MaxLen == 6

\* the characters of a response: the heading marker, the two kinds of
\* whitespace and a letter
Alphabet == {"#", " ", "\n", "a"}

\* the accumulated text of a response
Responses == UNION {[1..n -> Alphabet] : n \in 0..MaxLen}

CleanInit ==
    /\ exaConfigured = FALSE
    /\ Constructed(NewService("cats", "all", "gpt-4o"))
    /\ inputText \in Responses
    /\ command = NoCommand
    /\ pc = "clean"
    /\ state = AppState(<<>>, "all")
    /\ pending = <<>>
    /\ process = Running
    /\ stateBefore = AppState(<<>>, "all")

\* content = this.cleanContent(content); ...; return { content, success: true }
CleanResponse ==
    /\ pc = "clean"
    /\ last' = Call("cleanContent", Undefined, FALSE, FALSE, Svc,
                    Done(Svc, Return(GenerationResult(cleanContent(inputText), TRUE,
                                                      Undefined)),
                         NoEffects))
    /\ pc' = "cleaned"
    /\ UNCHANGED <<svcVars, ops, parseVars, state, pending, process, stateBefore>>

CleanNext == CleanResponse

SpecClean == CleanInit /\ [][CleanNext]_vars

---------------------------------------------------------------------------
(* The app: run() and its command loop around the service *)

\* commands read per behaviour
MaxCommands == 2

\* the topic given on the command line, and the answers typed at promptTopic
InitialTopic == <<"c", "a", "t">>

TopicAnswers == {InitialTopic, <<"d", "o", "g">>}

\* the lines typed at the command prompt
Lines ==
    { <<"/", "s", "c", "r", "i", "p", "t">>,
      <<"/", "T", "r", "e", "n", "d", "s">>,
      <<"h", "i">>,
      <<"/", "F", "o", "o">>,
      <<>>,
      <<" ">>,
      <<"/", "t">>,
      <<"/", "p">>,
      <<"/", "m">>,
      <<"/", "l", "a", "s", "t">>,
      <<"/", "c">>,
      <<"/", "q">> }

\* the state after `if (result.success && result.content) {...}`
Kept(st, contentType, result) ==
    IF result.success /\ result.content # <<>>
    THEN [st EXCEPT !.lastContent = result.content, !.lastContentType = contentType]
    ELSE st

\* what a handler did: the AppState after it, and its last service call
Handled(st, op, contentType, before, d) ==
    [state |-> st, op |-> op, contentType |-> contentType, before |-> before, d |-> d]

\* handleContent(contentType) on AppState st and service s
handleContent(st, s, contentType, resps, ai) ==
    LET d == generate(s, contentType, TRUE, resps, ai)
    IN  Handled(Kept(st, contentType, d.outcome.result), "generate", contentType, s, d)

\* handleChat(message), for a message that is not blank
handleChat(st, s, message, resps, ai) ==
    IF st.lastContentType # NoContentType /\ st.lastContent # <<>>
    THEN LET d == refine(s, st.lastContentType, message, ai)
         IN  Handled(Kept(st, st.lastContentType, d.outcome.result), "refine",
                     st.lastContentType, s, d)
    ELSE handleContent([st EXCEPT !.topic = message], setTopic(s, message),
                       "search", resps, ai)

\* Suspends as it would be if handleChat did not return on a blank message
SuspendsOnBlank(cmd) == cmd.type \in {"content", "model", "quit", "chat"}

\* the handler of cmd awaits a service call (or a selection prompt first)
Suspends(cmd) ==
    \/ cmd.type \in {"content", "model", "quit"}
    \/ cmd.type = "chat" /\ Trim(cmd.message) # <<>>

\* the loop as it would be if it read the next line without awaiting the handler
AtPromptOrAwaiting == pc \in {"prompt", "await"}

\* the loop is at `await promptCommand()`
AtPrompt == pc = "prompt"

\* the service after a call of the app, and the record of that call
Called(op, contentType, regenerate, before, d) ==
    /\ Becomes(d.s)
    /\ last' = Call(op, contentType, regenerate, FALSE, before, d)

\* Continue as it would be if the loop caught the error and went on
ContinueAfterThrow(outcome, rest) ==
    /\ pc' = IF rest = <<>> THEN "prompt" ELSE "await"
    /\ UNCHANGED process

\* an error thrown out of a handler leaves run(); program.action rethrows it
\* and the process ends; otherwise the loop goes on
Continue(outcome, rest) ==
    IF outcome.kind = "throw"
    THEN /\ pc' = "exited"
         /\ process' = Exited(1, "uncaught")
    ELSE /\ pc' = IF rest = <<>> THEN "prompt" ELSE "await"
         /\ UNCHANGED process

\* the line is read and parsed
Read(line) ==
    /\ inputText' = line
    /\ command' = parseCommand(line)
    /\ stateBefore' = state
    /\ ops' = ops + 1

AppInit ==
    /\ exaConfigured \in BOOLEAN
    /\ Constructed(NewService(InitialTopic, "all", "gpt-4o"))
    /\ inputText = <<>>
    /\ command = NoCommand
    /\ pc = "initialize"
    /\ state = AppState(InitialTopic, "all")
    /\ pending = <<>>
    /\ process = Running
    /\ stateBefore = AppState(InitialTopic, "all")

\* try { await state.service.initialize() } catch { printError; process.exit(1) }
AppInitialize ==
    /\ pc = "initialize"
    /\ \E start \in CallOutcomes :
          \E create \in IF start.threw THEN One(CallOutcomes) ELSE CallOutcomes :
             \E d \in {initialize(Svc, start, create)} :
                /\ Called("initialize", Undefined, FALSE, Svc, d)
                /\ IF d.outcome.kind = "throw"
                   THEN pc' = "exited" /\ process' = Exited(1, "connect")
                   ELSE pc' = "generate" /\ UNCHANGED process
    /\ UNCHANGED <<ops, parseVars, state, pending, stateBefore>>

\* the first generate("script", {regenerate: true}) of run()
FirstGenerate ==
    /\ pc = "generate"
    /\ \E ai \in AiOutcomesOf(session),
          resps \in IF exaConfigured THEN SearchResponses("script")
                    ELSE One(SearchResponses("script")) :
          \E h \in {handleContent(state, Svc, "script", resps, ai)} :
             /\ Called(h.op, h.contentType, TRUE, h.before, h.d)
             /\ state' = h.state
             /\ Continue(h.d.outcome, <<>>)
    /\ UNCHANGED <<ops, parseVars, pending, stateBefore>>

\* help, clear, last, copy, a blank line, and a value that is no Command: the
\* switch changes nothing
CommandLocal ==
    /\ AtPrompt
    /\ ops < MaxCommands
    /\ \E line \in Lines :
          /\ Read(line)
          /\ ~Suspends(command')
          /\ command'.type \notin {"platform", "topic"}
    /\ UNCHANGED <<svcVars, last, pc, state, pending, process>>

\* case "platform": promptPlatform, then setPlatform when the answer differs
CommandPlatform ==
    /\ AtPrompt
    /\ ops < MaxCommands
    /\ \E line \in Lines, newPlatform \in PlatformInputs :
          /\ Read(line)
          /\ command'.type = "platform"
          /\ IF newPlatform # state.platform
             THEN /\ state' = [state EXCEPT !.platform = newPlatform]
                  /\ Called("setPlatform", Undefined, FALSE, Svc,
                            Done(setPlatform(Svc, newPlatform), Return(NoResult),
                                 NoEffects))
             ELSE UNCHANGED <<state, svcVars, last>>
    /\ UNCHANGED <<pc, pending, process>>

\* case "topic": promptTopic, then setTopic when the answer differs
CommandTopic ==
    /\ AtPrompt
    /\ ops < MaxCommands
    /\ \E line \in Lines, newTopic \in TopicAnswers :
          /\ Read(line)
          /\ command'.type = "topic"
          /\ IF newTopic # state.topic
             THEN /\ state' = [state EXCEPT !.topic = newTopic]
                  /\ Called("setTopic", Undefined, FALSE, Svc,
                            Done(setTopic(Svc, newTopic), Return(NoResult), NoEffects))
             ELSE UNCHANGED <<state, svcVars, last>>
    /\ UNCHANGED <<pc, pending, process>>

\* content, chat, model, quit: the handler is entered and awaits
CommandStart ==
    /\ AtPrompt
    /\ ops < MaxCommands
    /\ \E line \in Lines :
          /\ Read(line)
          /\ Suspends(command')
          /\ pending' = Append(pending, command')
    /\ pc' = "await"
    /\ UNCHANGED <<svcVars, last, state, process>>

\* case "content": await handleContent(command.contentType)
CommandContent ==
    /\ pc = "await"
    /\ Head(pending).type = "content"
    /\ \E ai \in AiOutcomesOf(session),
          resps \in IF exaConfigured THEN SearchResponses(Head(pending).contentType)
                    ELSE One(SearchResponses(Head(pending).contentType)) :
          \E h \in {handleContent(state, Svc, Head(pending).contentType, resps, ai)} :
             /\ Called(h.op, h.contentType, TRUE, h.before, h.d)
             /\ state' = h.state
             /\ Continue(h.d.outcome, Tail(pending))
    /\ pending' = Tail(pending)
    /\ UNCHANGED <<ops, parseVars, stateBefore>>

\* case "chat": await handleChat(command.message)
CommandChat ==
    /\ pc = "await"
    /\ Head(pending).type = "chat"
    /\ \E ai \in AiOutcomesOf(session),
          resps \in IF exaConfigured /\ ~(state.lastContentType # NoContentType
                                         /\ state.lastContent # <<>>)
                    THEN SearchResponses("search")
                    ELSE One(SearchResponses("search")) :
          \E h \in {handleChat(state, Svc, Head(pending).message, resps, ai)} :
             /\ Called(h.op, h.contentType, h.op = "generate", h.before, h.d)
             /\ state' = h.state
             /\ Continue(h.d.outcome, Tail(pending))
    /\ pending' = Tail(pending)
    /\ UNCHANGED <<ops, parseVars, stateBefore>>

\* case "model": promptModel, then switchModel when the answer differs;
\* state.model is assigned after switchModel returned
CommandModel ==
    /\ pc = "await"
    /\ Head(pending).type = "model"
    /\ \E newModel \in ModelInputs :
          IF newModel # state.model
          THEN \E destroyed \in IF newModel # currentModel /\ session.exists
                                THEN BOOLEAN ELSE One(BOOLEAN),
                  create \in IF newModel # currentModel
                             THEN CallOutcomes ELSE One(CallOutcomes) :
                  \E d \in {switchModel(Svc, newModel, destroyed, create)} :
                     /\ Called("switchModel", Undefined, FALSE, Svc, d)
                     /\ state' = IF d.outcome.kind = "throw" THEN state
                                 ELSE [state EXCEPT !.model = newModel]
                     /\ Continue(d.outcome, Tail(pending))
          ELSE /\ UNCHANGED <<svcVars, last, state>>
               /\ Continue(Return(NoResult), Tail(pending))
    /\ pending' = Tail(pending)
    /\ UNCHANGED <<ops, parseVars, stateBefore>>

\* case "quit": printGoodbye(); await state.service?.cleanup(); process.exit(0)
CommandQuit ==
    /\ pc = "await"
    /\ Head(pending).type = "quit"
    /\ \E destroy \in IF session.exists THEN CallOutcomes ELSE One(CallOutcomes),
          stop \in StopOutcomes :
          Called("cleanup", Undefined, FALSE, Svc, cleanup(Svc, destroy, stop))
    /\ pc' = "exited"
    /\ process' = Exited(0, "quit")
    /\ pending' = Tail(pending)
    /\ UNCHANGED <<ops, parseVars, state, stateBefore>>

\* Ctrl+C at a prompt: the prompt rejects ("User force closed the prompt"),
\* program.action catches it: printGoodbye(); process.exit(0)
Interrupt ==
    /\ pc = "prompt"
    /\ pc' = "exited"
    /\ process' = Exited(0, "interrupt")
    /\ UNCHANGED <<svcVars, last, ops, parseVars, state, pending, stateBefore>>

AppNext ==
    \/ AppInitialize
    \/ FirstGenerate
    \/ CommandLocal
    \/ CommandPlatform
    \/ CommandTopic
    \/ CommandStart
    \/ CommandContent
    \/ CommandChat
    \/ CommandModel
    \/ CommandQuit
    \/ Interrupt

SpecApp == AppInit /\ [][AppNext]_vars

---------------------------------------------------------------------------
(* Properties of the service calls *)

\* the last call was one of the three generation methods
Generation == last.op \in {"generate", "refine", "getMoreVariations"}

\* the last call returned a GenerationResult saying success
Succeeded == last.outcome.kind = "return" /\ last.outcome.result.success

\* the last call made no search request and no call on the AI session
NoCalls ==
    /\ last.effects.searches = <<>>
    /\ last.effects.on = 0
    /\ last.effects.sent = 0

\* the last call and the one before it were both generate(T, regenerate=false)
\* for the same T
GeneratedTwice == last.op = "generate" /\ ~last.regenerate /\ last.repeat

C3_OnlySetTopicClears ==
    /\ last.op \in {"setPlatform", "switchModel"} =>
          /\ context.generatedContent = last.before.context.generatedContent
          /\ context.topic = last.before.context.topic
          /\ context.searchResults = last.before.context.searchResults
    /\ last.op = "setTopic" => context.generatedContent = EmptyMap

\* C3 witness: setPlatform changed the platform of a service holding a cache
\* entry and search results.
C3_Witness ==
    /\ last.op = "setPlatform"
    /\ context.platform # last.before.context.platform
    /\ context.generatedContent # EmptyMap
    /\ context.searchResults.defined

\* C4: refine or getMoreVariations for a content type with no cache entry
\* returns a failure, makes no search or AI call and changes nothing.
C4_NothingToRefine ==
    ( /\ last.op \in {"refine", "getMoreVariations"}
      /\ ~MapHas(last.before.context.generatedContent, last.contentType) )
    => /\ last.outcome.kind = "return"
       /\ ~last.outcome.result.success
       /\ last.outcome.result.error \notin {Undefined, ""}
       /\ NoCalls
       /\ Svc = last.before

\* C4 witness: refine of an uncached type on a live session that holds an
\* entry for another type.
C4_Witness ==
    /\ last.op = "refine"
    /\ ~MapHas(last.before.context.generatedContent, last.contentType)
    /\ last.before.context.generatedContent # EmptyMap
    /\ last.before.session.exists /\ ~last.before.session.destroyed

\* C5 as stated: when refine(T, feedback) returns success the cache entry for
\* T equals the returned text and no other entry has changed.
C5_RefineOverwrites ==
    (last.op = "refine" /\ Succeeded) =>
       /\ MapHas(context.generatedContent, last.contentType)
       /\ context.generatedContent[last.contentType] = last.outcome.result.content
       /\ \A t \in ContentType \ {last.contentType} :
             /\ MapHas(context.generatedContent, t)
                  = MapHas(last.before.context.generatedContent, t)
             /\ MapGet(context.generatedContent, t)
                  = MapGet(last.before.context.generatedContent, t)

\* C6 as stated: after getMoreVariations(T) the cache entry for T holds the
\* text it held before the call.
C6_VariationsKeepCache ==
    last.op = "getMoreVariations" =>
       /\ MapHas(context.generatedContent, last.contentType)
            = MapHas(last.before.context.generatedContent, last.contentType)
       /\ MapGet(context.generatedContent, last.contentType)
            = MapGet(last.before.context.generatedContent, last.contentType)

\* C7 as stated: a returned GenerationResult is a success with non-empty text
\* and no error, or a failure with an error message.
C7_ResultWellFormed ==
    (Generation /\ last.outcome.kind = "return") =>
       LET r == last.outcome.result
       IN  \/ r.success /\ r.content # <<>> /\ r.error = Undefined
           \/ ~r.success /\ r.error \notin {Undefined, ""}

\* C8 as stated: when generate(T, regenerate) returns success after an AI
\* call, the cache holds for T the returned text.
C8_GenerateStores ==
    (last.op = "generate" /\ Succeeded /\ last.effects.sent = 1) =>
       /\ MapHas(context.generatedContent, last.contentType)
       /\ context.generatedContent[last.contentType] = last.outcome.result.content

CacheHit ==
    /\ last.op = "generate"
    /\ ~last.regenerate
    /\ MapHas(last.before.context.generatedContent, last.contentType)

\* C11: without search credentials a generate that is not answered from the
\* cache sends no search request, does not throw, stores no search results,
\* and still calls the AI session when there is one; the prompt it sends is
\* the content prompt carrying the general-knowledge note.
C11_NoKeyNoSearch ==
    (last.op = "generate" /\ ~exaConfigured /\ ~CacheHit) =>
       /\ last.effects.searches = <<>>
       /\ last.effects.failed = 0
       /\ last.outcome.kind = "return"
       /\ context.searchResults = last.before.context.searchResults
       /\ last.before.session.exists =>
             /\ last.effects.on = 1
             /\ last.effects.sent = 1 \/ last.effects.caught # NoThrow
       /\ last.effects.sent = 1 =>
             /\ last.effects.prompt.kind = "content"
             /\ last.effects.prompt.contentType = last.contentType
             /\ last.effects.prompt.search.kind = "noKey"

\* C11 witness: without credentials generate sent the prompt with the note
\* and returned the text of the AI.
C11_Witness ==
    /\ last.op = "generate"
    /\ ~exaConfigured
    /\ last.effects.sent = 1
    /\ last.effects.prompt.search.kind = "noKey"
    /\ Succeeded
    /\ last.outcome.result.content # <<>>

\* C12 as stated: when switchModel throws, the current model and the session
\* are the ones from before the call, and that session is not destroyed.
C12_FailedSwitchKeepsSession ==
    (last.op = "switchModel" /\ last.outcome.kind = "throw") =>
       /\ currentModel = last.before.currentModel
       /\ session = last.before.session
       /\ last.before.session.exists => ~session.destroyed

\* the text deltas among events, in order
DeltaTexts(events) ==
    Concat([i \in 1..Len(events) |->
              IF events[i].type = "assistant.message_delta"
              THEN events[i].deltaContent ELSE <<>>])

\* C15 as stated: a generation call changes or adds a cache entry only for its
\* own content type, only when sendAndWait resolved, and then the entry is the
\* cleanup of the concatenation of the deltas the session emitted for that
\* request; when the send failed no entry is written.
C15_OnlyCompleteTextCached ==
    Generation =>
       \A t \in DOMAIN context.generatedContent :
          context.generatedContent[t] # MapGet(last.before.context.generatedContent, t)
          => /\ t = last.contentType
             /\ last.effects.sent = 1
             /\ last.effects.caught = NoThrow
             /\ context.generatedContent[t] = cleanContent(DeltaTexts(last.effects.events))

\* the requests of the search mode the content type calls for, on topic
ExpectedRequests(contentType, topic) ==
    CASE contentType = "trending" ->
            << [text |-> "topic", topic |-> topic, numResults |-> 15, recent |-> TRUE] >>
      [] contentType = "ideas" ->
            << [text |-> "viral", topic |-> topic, numResults |-> 5, recent |-> FALSE],
               [text |-> "tips", topic |-> topic, numResults |-> 5, recent |-> FALSE],
               [text |-> "best", topic |-> topic, numResults |-> 5, recent |-> FALSE] >>
      [] OTHER ->
            << [text |-> "topic", topic |-> topic, numResults |-> 5, recent |-> FALSE] >>

\* C23: with search configured, a generate that is not answered from the
\* cache sends the requests of exactly one search mode, chosen by the content
\* type alone: the one recent search for trending, the three inspiration
\* queries for ideas, the one general search for search, script, hooks, full.
C23_SearchModeByContentType ==
    (last.op = "generate" /\ exaConfigured /\ ~CacheHit) =>
       last.effects.searches = ExpectedRequests(last.contentType, context.topic)

\* C23 witness: generate("trending") sent the one recent search and went on
\* to the AI, on a service whose platform had been changed.
C23_Witness ==
    /\ last.op = "generate"
    /\ last.contentType = "trending"
    /\ exaConfigured
    /\ Len(last.effects.searches) = 1
    /\ last.effects.searches[1].recent
    /\ last.effects.sent = 1
    /\ context.platform # "all"

\* the last call returned a GenerationResult saying failure
Failed == last.outcome.kind = "return" /\ ~last.outcome.result.success

\* C24 as stated: after a generate(T, regenerate=true) that returned a
\* failure the cache is what it was before the call.
C24_FailedRegenerateKeepsCache ==
    (last.op = "generate" /\ last.regenerate /\ Failed) =>
       context.generatedContent = last.before.context.generatedContent

\* C26 as stated: between calls no listener is subscribed on the session.
C26_NoListenerLeft == session.listeners = 0

\* C27 as stated: the text a generation call returns after its send resolved,
\* and the entry it caches, is the cleanup of the deltas the session emitted
\* for that request alone.
C27_OnlyOwnDeltas ==
    (Generation /\ last.effects.sent = 1 /\ last.effects.caught = NoThrow) =>
       LET own == cleanContent(DeltaTexts(last.effects.events))
       IN  /\ last.outcome.result.content = own
           /\ own # <<>> => MapGet(context.generatedContent, last.contentType) = own

\* C29: every cache entry belongs to a content type, is not empty and is a
\* cleaned text (cleaning it again changes nothing); the cache holds at most
\* six entries; a call whose cleaned response was empty stored nothing.
C29_CacheEntriesAreCleaned ==
    /\ DOMAIN context.generatedContent \subseteq ContentType
    /\ Cardinality(DOMAIN context.generatedContent) <= 6
    /\ \A t \in DOMAIN context.generatedContent :
          /\ context.generatedContent[t] # <<>>
          /\ cleanContent(context.generatedContent[t]) = context.generatedContent[t]
    /\ (Generation /\ Succeeded /\ last.effects.sent = 1
           /\ last.outcome.result.content = <<>>) =>
          /\ MapGet(context.generatedContent, last.contentType)
               = IF last.op = "generate" /\ last.regenerate THEN <<>>
                 ELSE MapGet(last.before.context.generatedContent, last.contentType)

\* C29 witness: the cleaned response of a refine was empty and the entry kept
\* its text.
C29_Witness ==
    /\ last.op = "refine"
    /\ Succeeded
    /\ last.effects.sent = 1
    /\ last.outcome.result.content = <<>>
    /\ MapHas(context.generatedContent, last.contentType)

---------------------------------------------------------------------------
(* Properties of parseCommand *)

\* a and b are the same character up to case
SameLetter(a, b) == a = b \/ \E n \in 1..26 : {a, b} = {UpperCase[n], LowerCase[n]}

\* text is key in some upper/lower-case spelling with whitespace around it
SpellingOf(text, key) ==
    \E i \in 1..(Len(text) + 1) :
       /\ i + Len(key) - 1 <= Len(text)
       /\ \A n \in 1..Len(key) : SameLetter(text[i + n - 1], key[n])
       /\ \A n \in 1..Len(text) :
             (n < i \/ n > i + Len(key) - 1) => text[n] \in Whitespace

\* text spells some table command
SpellsCommand(text) == \E key \in DOMAIN COMMAND_MAP : SpellingOf(text, key)

\* text without the whitespace around it, by position
Stripped(text) ==
    LET inner == {n \in 1..Len(text) : text[n] \notin Whitespace}
    IN  IF inner = {} THEN <<>>
        ELSE SubSeq(text, CHOOSE n \in inner : \A m \in inner : n <= m,
                          CHOOSE n \in inner : \A m \in inner : n >= m)

\* C18: a line that spells a table command in any upper/lower case with
\* whitespace around it parses to that entry's variant; every spelling of
\* /ideas and of its alias /idea parses to the content variant for "ideas".
C18_CaseInsensitiveAliases ==
    pc = "parsed" =>
       /\ \A key \in DOMAIN COMMAND_MAP :
             SpellingOf(inputText, key) => command = COMMAND_MAP[key]
       /\ ( \/ SpellingOf(inputText, <<"/", "i", "d", "e", "a", "s">>)
            \/ SpellingOf(inputText, <<"/", "i", "d", "e", "a">>) )
          => command = [type |-> "content", contentType |-> "ideas", message |-> <<>>]

\* C18 witness: a padded mixed-case spelling of the alias /idea was parsed to
\* the content variant for "ideas".
C18_Witness ==
    /\ pc = "parsed"
    /\ inputText = <<" ", "/", "I", "d", "E", "a", "\n">>
    /\ command.type = "content"
    /\ command.contentType = "ideas"

\* C19 as stated: every line parses to one variant of the closed Command set;
\* an empty or whitespace-only line to chat with the empty message; a line
\* that spells no table command and does not start with a slash to chat with
\* the trimmed line.
C19_TotalOverLines ==
    pc = "parsed" =>
       /\ command.type \in CommandTypes
       /\ command.type = "content" <=> command.contentType \in ContentType
       /\ Stripped(inputText) = <<>> => command = Chat(<<>>)
       /\ ( /\ Stripped(inputText) # <<>>
            /\ ~SpellsCommand(inputText)
            /\ Head(Stripped(inputText)) # "/" )
          => command = Chat(Stripped(inputText))

\* C20 as stated: a line that starts with a slash and spells no table command
\* parses to chat carrying the line exactly as typed.
C20_UnknownSlashIsRawChat ==
    (pc = "parsed" /\ inputText # <<>> /\ Head(inputText) = "/"
        /\ ~SpellsCommand(inputText))
    => command = Chat(inputText)

\* C20 amended: a line whose trimmed text starts with a slash and spells no
\* table command parses to chat carrying the trimmed text in its original case.
C20_UnknownSlashIsTrimmedChat ==
    (pc = "parsed" /\ Stripped(inputText) # <<>> /\ Head(Stripped(inputText)) = "/"
        /\ ~SpellsCommand(inputText))
    => command = Chat(Stripped(inputText))

\* C20 witness: an unknown slash command in mixed case, with whitespace around
\* it, was parsed to chat with the text in its case.
C20_Witness ==
    /\ pc = "parsed"
    /\ inputText = <<" ", "/", "F", "o", "o", "\n">>
    /\ command = Chat(<<"/", "F", "o", "o">>)

---------------------------------------------------------------------------
(* Properties of the app *)

\* C13 as stated: the process exits on a failure only when the initial
\* connection failed, before any command was read; every other exit is the
\* quit command or the user's interrupt.
C13_NoFailureExitsTheLoop ==
    process.exited =>
       \/ process.cause = "connect" /\ last.op = "initialize" /\ ops = 0
       \/ process.cause \in {"quit", "interrupt"} /\ process.code = 0

\* the service calls the handler of a command of this type may end with
CallsOf(type) ==
    CASE type = "content" -> {"generate"}
      [] type = "chat" -> {"refine", "generate"}
      [] type = "model" -> {"switchModel"}
      [] type = "quit" -> {"cleanup"}
      [] OTHER -> {}

\* C14: at most one handler awaits a service call; while one does, the only
\* step is the completion of its call: no line is read or parsed, and the
\* service changes by no other command's call.
C14_OneCallInFlight ==
    [][ /\ Len(pending') <= 1
        /\ pending # <<>> =>
              /\ pending' = <<>>
              /\ inputText' = inputText
              /\ command' = command
              /\ ops' = ops
              /\ \/ last'.op \in CallsOf(Head(pending).type)
                 \/ UNCHANGED <<last, svcVars, state>> ]_vars

\* C14 witness: a refinement of the last content is in flight.
C14_Witness ==
    /\ pc = "await"
    /\ Len(pending) = 1
    /\ pending[1].type = "chat"
    /\ state.lastContent # <<>>
    /\ session.exists /\ ~session.destroyed

\* C16 as stated: when the process has exited by the quit command or by the
\* user's interrupt, the AI session is destroyed and the client is stopped.
C16_ExitReleases ==
    (process.exited /\ process.cause \in {"quit", "interrupt"}) =>
       /\ session.exists => session.destroyed
       /\ client = "stopped"

\* the handler of a chat line that is not blank has just completed
ChatHandled ==
    /\ pc = "prompt"
    /\ pending = <<>>
    /\ command.type = "chat"
    /\ Trim(command.message) # <<>>

\* content had been generated when the line was read
HadContent ==
    stateBefore.lastContentType # NoContentType /\ stateBefore.lastContent # <<>>

\* C17 as stated: a chat line read when content had been generated is sent to
\* the AI as refinement feedback on the last generated content (topic
\* unchanged); a chat line read when no content had been generated becomes
\* the topic of the app and of the service, and "search" content is generated
\* afresh for it.
C17_ChatRouting ==
    ChatHandled =>
       IF HadContent
       THEN /\ last.op = "refine"
            /\ last.contentType = stateBefore.lastContentType
            /\ last.effects.on = 1
            /\ last.effects.sent = 1 =>
                  last.effects.prompt =
                     getRefinementPrompt(stateBefore.lastContent, command.message)
            /\ state.topic = stateBefore.topic
            /\ context.topic = last.before.context.topic
       ELSE /\ last.op = "generate"
            /\ last.contentType = "search"
            /\ last.regenerate
            /\ state.topic = command.message
            /\ context.topic = command.message
            /\ last.before.context.generatedContent = EmptyMap

---------------------------------------------------------------------------
(* Properties of cleanContent *)

\* the characters of text that are not whitespace, in order
RECURSIVE NonBlank(_)
NonBlank(text) ==
    IF text = <<>> THEN <<>>
    ELSE (IF Head(text) \in Whitespace THEN <<>> ELSE <<Head(text)>>)
         \o NonBlank(Tail(text))

\* the positions of text where a heading marker starts: "##", or "#" and a
\* whitespace character
Markers(text) ==
    {i \in 1..(Len(text) - 1) :
        text[i] = "#" /\ (text[i + 1] = "#" \/ text[i + 1] \in Whitespace)}

\* text from its first heading marker on (all of it when it has none)
FromFirstMarker(text) ==
    IF Markers(text) = {} THEN text
    ELSE SubSeq(text, CHOOSE i \in Markers(text) : \A j \in Markers(text) : i <= j,
                Len(text))

C22_BlankLineIsNoOp ==
    [][ (ops' > 0 /\ Stripped(inputText') = <<>>)
        => UNCHANGED <<svcVars, last, state, pending>> ]_vars

\* C22 witness: a whitespace-only line was read after content had been
\* generated, and the loop is back at the prompt.
C22_Witness ==
    /\ pc = "prompt"
    /\ ops > 0
    /\ inputText = <<" ">>
    /\ command = Chat(<<>>)
    /\ state.lastContent # <<>>
    /\ state = stateBefore
    /\ context.generatedContent # EmptyMap

\* C25 as stated: whenever the loop waits for a command and the app records
\* a last content type T, the cache holds for T the app's last content.
C25_LastContentIsCached ==
    (pc = "prompt" /\ state.lastContentType # NoContentType) =>
       /\ MapHas(context.generatedContent, state.lastContentType)
       /\ context.generatedContent[state.lastContentType] = state.lastContent

\* C28 as stated: cleanup() does not throw, destroys the session unless
\* destroy() itself failed, and stops the client unless stop() itself failed.
C28_CleanupReleasesBoth ==
    last.op = "cleanup" =>
       /\ last.outcome.kind = "return"
       /\ ( /\ last.before.client # NoClient
            /\ last.effects.caught # Err("Failed to stop client") )
          => client = "stopped"

\* C30: whenever the loop waits for a command, the app's topic, platform and
\* model are the service's topic, platform and current model, and the live
\* session is one for that model.
C30_AppAgreesWithService ==
    pc = "prompt" =>
       /\ state.topic = context.topic
       /\ state.platform = context.platform
       /\ state.model = currentModel
       /\ session.exists /\ session.model = currentModel

\* C30 witness: the loop waits for a command after a model switch and a
\* chat line, with topic, platform or model changed from the initial ones.
C30_Witness ==
    /\ pc = "prompt"
    /\ ops = MaxCommands
    /\ state.model # "gpt-4o"
    /\ last.op \in {"refine", "generate"}
    /\ Failed

=============================================================================
